---------------------------- MODULE Spec2Model ----------------------------
(***************************************************************************)
(* Database storage adapter of mcp-remote (mcp-auth-config-database.ts and *)
(* database-prisma-client.ts, both in src/unnamed/part_000).               *)
(*                                                                         *)
(* JavaScript runs one callback at a time: the code between two `await`s   *)
(* is one atomic step.  An operation is therefore a short chain of         *)
(* actions: the synchronous part of the call, the durable store executing  *)
(* the query, and the continuation(s) after each await.                    *)
(***************************************************************************)
EXTENDS Integers, Sequences, FiniteSets, TLC

(***************************************************************************)
(* Bounds of the model.                                                    *)
(***************************************************************************)
MaxOps == 3        \* operations started in one behaviour
MaxTicks == 2      \* clock advances in one behaviour
MaxTamper == 1     \* outside modifications of a stored record
NumIVs == 1        \* distinct outcomes of crypto.randomBytes(16)
MaxFaults == 1     \* failures of the durable store or of the crypto library

(***************************************************************************)
(* Program constants.                                                      *)
(***************************************************************************)
CACHE_TTL == 5000
ENCRYPTION_KEY == "default-dev-key-change-in-production"

(***************************************************************************)
(* Names.                                                                  *)
(***************************************************************************)
Users == {"u1", "u2"}
Conns == {"c1"}
Tenants == Users \X Conns
Hashes == {"h"}
Filenames == {"tokens.json", "client_info.json", "x"}
IVs == 1..NumIVs
Procs == {1, 2}

(***************************************************************************)
(* JSON values.  Every value is a record [t, v]: the type tag and the      *)
(* payload as text.  Absent is JavaScript's undefined.                     *)
(***************************************************************************)
Absent == [t |-> "undefined", v |-> ""]
JNull == [t |-> "null", v |-> ""]
JFalse == [t |-> "bool", v |-> "false"]
JZero == [t |-> "num", v |-> "0"]
JStr(s) == [t |-> "str", v |-> s]
JObj(tt) == [t |-> "obj", v |-> tt]    \* the object {token_type: tt}
JsonValues == {JNull, JFalse, JZero, JStr(""), JStr("s"), JObj("bearer")}

\* JSON.stringify
Stringify(d) ==
  CASE d.t = "null" -> "null"
    [] d.t = "bool" -> d.v
    [] d.t = "num" -> d.v
    [] d.t = "str" -> "\"" \o d.v \o "\""
    [] d.t = "obj" -> "{\"token_type\":\"" \o d.v \o "\"}"

ParseError == [t |-> "error", v |-> "SyntaxError"]

\* JSON.parse: the value whose text this is, a SyntaxError for any other text
Parse(s) ==
  IF \E d \in JsonValues : Stringify(d) = s
    THEN CHOOSE d \in JsonValues : Stringify(d) = s
    ELSE ParseError

\* !data
Falsy(d) ==
  \/ d.t \in {"undefined", "null"}
  \/ d = JFalse
  \/ d = JZero
  \/ d = JStr("")

\* data.token_type || 'oauth', for data other than null and undefined
TokenTypeOf(d) == IF d.t = "obj" /\ d.v # "" THEN d.v ELSE "oauth"


(***************************************************************************)
(* Authenticated Cipher.  The cryptography is symbolic: SHA-256 is         *)
(* injective, a ciphertext is the term (key, iv, text), and the GCM tag    *)
(* authenticates (key, iv, ciphertext).  The serialised 'iv:tag:ct' is the *)
(* sequence of its ':'-separated fields, as split(':') returns it.         *)
(***************************************************************************)
\* a key derived from the shared secret alone
DeriveKeyShared(userId) == <<"sha256", ENCRYPTION_KEY>>

\* crypto.createHash('sha256').update(ENCRYPTION_KEY + userId).digest()
DeriveKey(userId) == <<"sha256", ENCRYPTION_KEY \o userId>>

AesCt(key, iv, text) == [key |-> key, iv |-> iv, text |-> text, flipped |-> FALSE]

GcmTag(key, iv, ct) == <<"tag", key, iv, ct>>

encrypt(text, userId, iv) ==
  LET key == DeriveKey(userId)
      ct == AesCt(key, iv, text)
  IN <<iv, GcmTag(key, iv, ct), ct>>

\* decipher.update: the plaintext under the right key, garbage under another
Decipher(ct, key, iv) ==
  IF ct.key = key /\ ct.iv = iv /\ ~ct.flipped THEN ct.text ELSE "garbage"

\* decrypt: [ok, text, err]; ok = FALSE is a thrown error: a missing field
\* makes Buffer.from or decipher.update throw ("malformed"), a tag that does
\* not authenticate (key, iv, ciphertext) makes decipher.final throw
\* ("integrity")
decrypt(encryptedData, userId) ==
  IF Len(encryptedData) < 3
    THEN [ok |-> FALSE, text |-> "", err |-> "malformed"]
    ELSE LET iv == encryptedData[1]
             authTag == encryptedData[2]
             encrypted == encryptedData[3]
             key == DeriveKey(userId)
         IN IF authTag = GcmTag(key, iv, encrypted)
              THEN [ok |-> TRUE, text |-> Decipher(encrypted, key, iv),
                    err |-> "none"]
              ELSE [ok |-> FALSE, text |-> "", err |-> "integrity"]

(***************************************************************************)
(* Resource Shape Router: the record each filename addresses.              *)
(***************************************************************************)
Shape(filename) ==
  CASE filename = "tokens.json" -> "token"
    [] filename = "client_info.json" -> "client"
    [] OTHER -> "generic"

\* userId_connectionId_serverHash
TokenKey(ad, serverUrlHash) == <<ad[1], ad[2], serverUrlHash>>

\* serverUrl: the hash alone
ClientKey(serverUrlHash) == serverUrlHash

\* a generic key that leaves the filename out
GenericKeyByHash(ad, serverUrlHash, filename) ==
  <<ad[1], ad[2], serverUrlHash>>

\* userId_connectionId_key, key = `${serverUrlHash}_${filename}`
GenericKey(ad, serverUrlHash, filename) ==
  <<ad[1], ad[2], serverUrlHash \o "_" \o filename>>

\* addresses <<tenant context, serverUrlHash, filename>>: those of the
\* names above, and two whose hash and filename join to the same text
Addresses == Tenants \X Hashes \X Filenames
JoinedAlike ==
  {<<ad, "h", "x_y">> : ad \in Tenants} \cup {<<ad, "h_x", "y">> : ad \in Tenants}
AllAddresses == Addresses \cup JoinedAlike

TokenKeys == {TokenKey(a[1], a[2]) : a \in AllAddresses}
ClientKeys == {ClientKey(a[2]) : a \in AllAddresses}
GenericKeys == {GenericKey(a[1], a[2], a[3]) : a \in AllAddresses}

\* `${this.userId}:${this.connectionId}:${serverUrlHash}:${filename}`
getCacheKey(ad, serverUrlHash, filename) ==
  ad[1] \o ":" \o ad[2] \o ":" \o serverUrlHash \o ":" \o filename

CacheKeys == {getCacheKey(a[1], a[2], a[3]) : a \in AllAddresses}

NoRecord == [has |-> FALSE]
NoEntry == [has |-> FALSE, data |-> Absent, timestamp |-> 0]

(***************************************************************************)
(* State.                                                                  *)
(***************************************************************************)
VARIABLES
  mCPRemoteToken,       \* durable store: token records by TokenKey
  mCPRemoteClientInfo,  \* durable store: client-info records by ClientKey
  mCPRemoteStorage,     \* durable store: generic records by GenericKey
  cache,                \* the process-wide Map, by cache key
  now,                  \* Date.now()
  prisma,               \* database-prisma-client's `prisma`: TRUE once created
  databaseUrl,          \* process.env.DATABASE_URL is set
  prismaGlobal,         \* the free identifier `prisma` of the adapter module
                        \* resolves (to a client); else using it throws
  DB_MODE,              \* process.env.MCP_STORAGE_TYPE === 'database'
  USER_ID,              \* process.env.MCP_USER_ID ("" when unset)
  CONNECTION_ID,        \* process.env.MCP_CONNECTION_ID ("" when unset)
  storageInstance,      \* the singleton: <<>> (null) or its tenant context
  files,                \* the fallback backend's files, by <<hash, filename>>
  proc,                 \* the requests in flight
  last,                 \* history: the operation that completed last
  left,                 \* what is left of each bound of the behaviour
  scope                 \* the inputs of this behaviour: the address the
                        \* requests are for, the values they write, and how
                        \* many requests may be in flight at once

store == <<mCPRemoteToken, mCPRemoteClientInfo, mCPRemoteStorage>>
env == <<databaseUrl, prismaGlobal, DB_MODE, USER_ID, CONNECTION_ID, scope>>
vars == <<mCPRemoteToken, mCPRemoteClientInfo, mCPRemoteStorage, cache, now,
          prisma, databaseUrl, prismaGlobal, DB_MODE, USER_ID, CONNECTION_ID,
          storageInstance, files, proc, last, left, scope>>

NoLoc == [k |-> "none"]
NoOp == [op |-> "none", via |-> "adapter", ad |-> <<"", "">>, h |-> "", f |-> "",
         v |-> Absent, res |-> Absent, err |-> FALSE, dbres |-> "none"]
NoLast == [op |-> "none", via |-> "adapter", ad |-> <<"", "">>, h |-> "", f |-> "",
           v |-> Absent, res |-> Absent, err |-> FALSE, dbres |-> "none",
           fail |-> "none", solo |-> FALSE, wov |-> FALSE, c0 |-> NoEntry,
           t0 |-> 0, sameCache |-> TRUE, sameStore |-> TRUE, backend |-> "db",
           raw |-> Absent, validator |-> "skipped", prev |-> NoOp]
Idle == [pc |-> "idle", op |-> "none", via |-> "adapter", ad |-> <<"", "">>,
         h |-> "", f |-> "", v |-> Absent, loc |-> NoLoc, dbres |-> "none",
         solo |-> FALSE, wov |-> FALSE, c0 |-> NoEntry, t0 |-> 0, s0 |-> <<>>,
         backend |-> "db", prev |-> NoOp]

InFlight(r) == r.pc # "idle"
WriteLike(op) == op \in {"writeJson", "writeText"}
ReadLike(op) == op \in {"readJson", "readText"}

\* history: what a later operation remembers of the one before it
Strip(l) == [op |-> l.op, via |-> l.via, ad |-> l.ad, h |-> l.h, f |-> l.f,
             v |-> l.v, res |-> l.res, err |-> l.err, dbres |-> l.dbres]

(***************************************************************************)
(* Ephemeral Read Cache.                                                   *)
(***************************************************************************)
\* cached && Date.now() - cached.timestamp < CACHE_TTL
CacheFresh(entry, t) == entry.has /\ t - entry.timestamp < CACHE_TTL

\* getFromCache's result: the entry's data, or null
getFromCache(key) ==
  IF CacheFresh(cache[key], now) THEN cache[key].data ELSE JNull

\* a lookup that deletes the entry whenever it reports a miss
EvictAlways(key) ==
  IF getFromCache(key) # JNull THEN cache ELSE [cache EXCEPT ![key] = NoEntry]

\* getFromCache's effect: an entry that is not returned is deleted
EvictOnMiss(key) ==
  IF CacheFresh(cache[key], now) THEN cache ELSE [cache EXCEPT ![key] = NoEntry]

\* cache.set(key, { data, timestamp: Date.now() })
setCache(c, key, data) ==
  [c EXCEPT ![key] = [has |-> TRUE, data |-> data, timestamp |-> now]]

(***************************************************************************)
(* The record a filename addresses, in the table of its shape.             *)
(***************************************************************************)
RecordAt(ad, h, f) ==
  CASE Shape(f) = "token" -> mCPRemoteToken[TokenKey(ad, h)]
    [] Shape(f) = "client" -> mCPRemoteClientInfo[ClientKey(h)]
    [] OTHER -> mCPRemoteStorage[GenericKey(ad, h, f)]

(***************************************************************************)
(* Completion of an operation.  readText (and readTextFile, which rethrows *)
(* under its own message) and readJsonFile post-process what readJson      *)
(* returned; nothing shared is read or written after that await, so the    *)
(* post-processing is part of the step in which readJson returns.          *)
(***************************************************************************)
\* a readText that returns whatever readJson returned
TextNeverRejected(data) == FALSE

\* readText: if (!data || typeof data !== 'string') throw
TextRejected(data) == Falsy(data) \/ data.t # "str"

\* readJsonFile: if (!data) return undefined
JsonFileDropped(data) == Falsy(data)

\* the outcomes schema.parseAsync may have for this completion
ValidatorOutcomes(q, res) ==
  IF q.via = "export" /\ q.backend = "db" /\ q.op = "readJson"
     /\ ~JsonFileDropped(res)
    THEN BOOLEAN ELSE {TRUE}

FinalRes(q, res, err, valid) ==
  CASE q.backend = "file" -> res
    [] q.op = "readText" -> IF TextRejected(res) THEN Absent ELSE res
    [] q.op = "readJson" /\ q.via = "export" ->
         IF JsonFileDropped(res) \/ ~valid THEN Absent ELSE res
    [] OTHER -> res

FinalErr(q, res, err) ==
  IF q.backend = "db" /\ q.op = "readText" THEN TextRejected(res) ELSE err

\* history: raw is what readJson returned, res what the caller got
MkLast(q, res, err, fail, valid, cacheEnd) ==
  [op |-> q.op, via |-> q.via, ad |-> q.ad, h |-> q.h, f |-> q.f, v |-> q.v,
   res |-> FinalRes(q, res, err, valid), err |-> FinalErr(q, res, err),
   dbres |-> q.dbres, fail |-> fail, solo |-> q.solo, wov |-> q.wov,
   c0 |-> q.c0, t0 |-> q.t0,
   sameCache |-> (cacheEnd[getCacheKey(q.ad, q.h, q.f)] = q.c0),
   sameStore |-> (ReadLike(q.op) => q.s0 = store),
   backend |-> q.backend, raw |-> res,
   validator |-> IF ValidatorOutcomes(q, res) = {TRUE} THEN "skipped"
                 ELSE IF valid THEN "passed" ELSE "threw",
   prev |-> q.prev]

\* the operation of request p returns (or throws, err = TRUE)
Return(P, p, q, res, err, fail, cacheEnd) ==
  \E valid \in ValidatorOutcomes(q, res) :
    /\ proc' = [P EXCEPT ![p] = Idle]
    /\ last' = MkLast(q, res, err, fail, valid, cacheEnd)

\* the operation of request p suspends at an await
Await(P, L, p, q, pc, loc) ==
  /\ proc' = [P EXCEPT ![p] = [q EXCEPT !.pc = pc, !.loc = loc]]
  /\ last' = L

(***************************************************************************)
(* getPrismaClient: creates the client on first use, and throws when       *)
(* DATABASE_URL is not set.                                                *)
(***************************************************************************)
getPrismaClientThrows == ~prisma /\ ~databaseUrl

\* a use of the adapter module's free identifier `prisma` throws a
\* ReferenceError when nothing binds it
PrismaRefThrows == ~prismaGlobal

(***************************************************************************)
(* readJson.                                                               *)
(***************************************************************************)
\* the call, up to the first await: the cache check, then the query is issued
ReadCall(P, L, p, q) ==
  LET key == getCacheKey(q.ad, q.h, q.f)
      cached == getFromCache(key)
  IN IF cached # JNull
       THEN /\ Return(P, p, q, cached, FALSE, "none", cache)
            /\ UNCHANGED <<store, cache, prisma>>
       ELSE /\ cache' = EvictOnMiss(key)
            /\ UNCHANGED store
            /\ IF Shape(q.f) = "token"
                 THEN IF getPrismaClientThrows
                        THEN /\ Return(P, p, q, Absent, FALSE, "config", cache')
                             /\ UNCHANGED prisma
                        ELSE /\ prisma' = TRUE
                             /\ Await(P, L, p, q, "r_wait", NoLoc)
                 ELSE /\ UNCHANGED prisma
                      /\ IF PrismaRefThrows
                           THEN Return(P, p, q, Absent, FALSE, "ref", cache')
                           ELSE Await(P, L, p, q, "r_wait", NoLoc)

\* the durable store answers findUnique, or fails
DbFind(p) ==
  LET q == proc[p] IN
  /\ q.pc = "r_wait"
  /\ \E ok \in BOOLEAN :
       /\ ~ok => left.faults > 0
       /\ left' = IF ok THEN left ELSE [left EXCEPT !.faults = @ - 1]
       /\ LET rec == RecordAt(q.ad, q.h, q.f)
              res == IF ~ok THEN "error" ELSE IF rec.has THEN "ok" ELSE "notfound"
          IN Await(proc, last, p, [q EXCEPT !.dbres = res], "r_back",
                   IF ok THEN rec ELSE NoLoc)
  /\ UNCHANGED <<store, cache, now, prisma, env, storageInstance, files>>

\* what readJson caches and returns for a decoded text
ReadDecoded(p, q, text) ==
  LET data == Parse(text)
      key == getCacheKey(q.ad, q.h, q.f)
  IN IF data = ParseError
       THEN /\ Return(proc, p, q, Absent, FALSE, "parse", cache)
            /\ UNCHANGED cache
       ELSE /\ cache' = setCache(cache, key, data)
            /\ Return(proc, p, q, data, FALSE, "none", cache')

\* the continuation after findUnique
ReadCont(p) ==
  LET q == proc[p] IN
  /\ q.pc = "r_back"
  /\ IF q.dbres = "error"
       THEN /\ Return(proc, p, q, Absent, FALSE, "fetch", cache)
            /\ UNCHANGED cache
       ELSE IF q.dbres = "notfound"
         THEN /\ Return(proc, p, q, Absent, FALSE, "none", cache)
              /\ UNCHANGED cache
         ELSE IF Shape(q.f) = "token"
           THEN /\ Await(proc, last, p, q, "r_dec", decrypt(q.loc.tokenData, q.ad[1]))
                /\ UNCHANGED cache
           ELSE ReadDecoded(p, q, q.loc.value)
  /\ UNCHANGED <<store, now, prisma, env, storageInstance, files, left>>

\* the continuation after decrypt
ReadDec(p) ==
  LET q == proc[p] IN
  /\ q.pc = "r_dec"
  /\ IF ~q.loc.ok
       THEN /\ Return(proc, p, q, Absent, FALSE, "decrypt", cache)
            /\ UNCHANGED cache
       ELSE ReadDecoded(p, q, q.loc.text)
  /\ UNCHANGED <<store, now, prisma, env, storageInstance, files, left>>

(***************************************************************************)
(* writeJson.                                                              *)
(***************************************************************************)
\* a writeJson that persists the JSON text of a token as it is
TokenPayloadPlain(data, userId, iv) == <<Stringify(data)>>

\* the payload writeJson persists for a token record
TokenPayload(data, userId, iv) == encrypt(Stringify(data), userId, iv)

\* a writeJson that persists String(data) in place of JSON.stringify(data)
PlainPayloadAsString(data) ==
  CASE data.t = "null" -> "null"
    [] data.t = "obj" -> "[object Object]"
    [] OTHER -> data.v

\* the payload writeJson persists for a client-info or generic record
PlainPayload(data) == Stringify(data)

\* a catch that logs the error and does not rethrow it
WriteSwallows(fail) == FALSE

\* the catch of writeJson: the error is logged and rethrown
WriteRethrows(fail) == TRUE

\* the call, up to the first await
WriteCall(P, L, p, q) ==
  /\ UNCHANGED <<store, cache, prisma>>
  /\ IF Shape(q.f) = "token"
       THEN \* await encrypt(JSON.stringify(data), this.userId)
            \E iv \in IVs, ok \in BOOLEAN :
              /\ ~ok => left.faults > 0
              /\ left' = [left EXCEPT !.ops = @ - 1,
                                      !.faults = IF ok THEN @ ELSE @ - 1]
              /\ Await(P, L, p, q, "w_enc",
                       [ok |-> ok, enc |-> TokenPayload(q.v, q.ad[1], iv)])
       ELSE /\ left' = [left EXCEPT !.ops = @ - 1]
            /\ IF PrismaRefThrows
                 THEN Return(P, p, q, Absent, WriteRethrows("ref"), "ref", cache)
                 ELSE Await(P, L, p, q, "w_wait", [value |-> PlainPayload(q.v)])

\* the continuation after encrypt: the token upsert is issued
WriteEnc(p) ==
  LET q == proc[p] IN
  /\ q.pc = "w_enc"
  /\ IF ~q.loc.ok
       THEN Return(proc, p, q, Absent, WriteRethrows("encrypt"), "encrypt", cache)
       ELSE IF PrismaRefThrows
         THEN Return(proc, p, q, Absent, WriteRethrows("ref"), "ref", cache)
         ELSE IF q.v.t \in {"null", "undefined"}
           THEN \* data.token_type of null: TypeError
                Return(proc, p, q, Absent, WriteRethrows("type"), "type", cache)
           ELSE Await(proc, last, p, q, "w_wait",
                      [tokenData |-> q.loc.enc, tokenType |-> TokenTypeOf(q.v)])
  /\ UNCHANGED <<store, cache, now, prisma, env, storageInstance, files, left>>

\* upsert: create the record, or update the payload of the one there
Upserted(old, payload) ==
  IF old.has /\ "tokenData" \in DOMAIN payload
    THEN [old EXCEPT !.tokenData = payload.tokenData]
    ELSE [has |-> TRUE] @@ payload

\* the durable store executes the upsert, or fails
DbUpsert(p) ==
  LET q == proc[p] IN
  /\ q.pc = "w_wait"
  /\ \E ok \in BOOLEAN :
       /\ ~ok => left.faults > 0
       /\ left' = IF ok THEN left ELSE [left EXCEPT !.faults = @ - 1]
       /\ Await(proc, last, p, [q EXCEPT !.dbres = IF ok THEN "ok" ELSE "error"],
                "w_back", NoLoc)
       /\ IF ~ok
            THEN UNCHANGED store
            ELSE CASE Shape(q.f) = "token" ->
                        /\ mCPRemoteToken' = [mCPRemoteToken EXCEPT
                             ![TokenKey(q.ad, q.h)] = Upserted(@, q.loc)]
                        /\ UNCHANGED <<mCPRemoteClientInfo, mCPRemoteStorage>>
                   [] Shape(q.f) = "client" ->
                        /\ mCPRemoteClientInfo' = [mCPRemoteClientInfo EXCEPT
                             ![ClientKey(q.h)] = Upserted(@, q.loc)]
                        /\ UNCHANGED <<mCPRemoteToken, mCPRemoteStorage>>
                   [] OTHER ->
                        /\ mCPRemoteStorage' = [mCPRemoteStorage EXCEPT
                             ![GenericKey(q.ad, q.h, q.f)] = Upserted(@, q.loc)]
                        /\ UNCHANGED <<mCPRemoteToken, mCPRemoteClientInfo>>
  /\ UNCHANGED <<cache, now, prisma, env, storageInstance, files>>

\* what writeJson puts in the cache once the upsert has succeeded
CachedOnWrite(c, key, data) == setCache(c, key, data)

\* the continuation after the upsert
WriteCont(p) ==
  LET q == proc[p]
      key == getCacheKey(q.ad, q.h, q.f)
  IN
  /\ q.pc = "w_back"
  /\ IF q.dbres = "error"
       THEN /\ Return(proc, p, q, Absent, WriteRethrows("upsert"), "upsert", cache)
            /\ UNCHANGED cache
       ELSE /\ cache' = CachedOnWrite(cache, key, q.v)
            /\ Return(proc, p, q, Absent, FALSE, "none", cache')
  /\ UNCHANGED <<store, now, prisma, env, storageInstance, files, left>>

(***************************************************************************)
(* delete.                                                                 *)
(***************************************************************************)
\* a catch that ignores nothing: P2025 is thrown on like any other error
DeleteRethrowsNotFound(dbres) == dbres = "notfound"

\* the catch of delete: every error is swallowed (logged unless P2025)
DeleteRethrows(dbres) == FALSE

\* the call: the cache entry is dropped, then the delete is issued
DeleteCall(P, L, p, q) ==
  LET key == getCacheKey(q.ad, q.h, q.f) IN
  /\ cache' = [cache EXCEPT ![key] = NoEntry]
  /\ UNCHANGED <<store, prisma>>
  /\ IF PrismaRefThrows
       THEN Return(P, p, q, Absent, DeleteRethrows("ref"), "ref", cache')
       ELSE Await(P, L, p, q, "d_wait", NoLoc)

\* the durable store executes the delete: P2025 when there is no record
DbDelete(p) ==
  LET q == proc[p]
      rec == RecordAt(q.ad, q.h, q.f)
  IN
  /\ q.pc = "d_wait"
  /\ \E ok \in BOOLEAN :
       /\ ~ok => left.faults > 0
       /\ left' = IF ok THEN left ELSE [left EXCEPT !.faults = @ - 1]
       /\ Await(proc, last, p,
                [q EXCEPT !.dbres = IF ~ok THEN "error"
                                    ELSE IF rec.has THEN "ok" ELSE "notfound"],
                "d_back", NoLoc)
       /\ IF ~ok
            THEN UNCHANGED store
            ELSE CASE Shape(q.f) = "token" ->
                        /\ mCPRemoteToken' = [mCPRemoteToken EXCEPT
                             ![TokenKey(q.ad, q.h)] = NoRecord]
                        /\ UNCHANGED <<mCPRemoteClientInfo, mCPRemoteStorage>>
                   [] Shape(q.f) = "client" ->
                        /\ mCPRemoteClientInfo' = [mCPRemoteClientInfo EXCEPT
                             ![ClientKey(q.h)] = NoRecord]
                        /\ UNCHANGED <<mCPRemoteToken, mCPRemoteStorage>>
                   [] OTHER ->
                        /\ mCPRemoteStorage' = [mCPRemoteStorage EXCEPT
                             ![GenericKey(q.ad, q.h, q.f)] = NoRecord]
                        /\ UNCHANGED <<mCPRemoteToken, mCPRemoteClientInfo>>
  /\ UNCHANGED <<cache, now, prisma, env, storageInstance, files>>

\* the continuation after the delete
DeleteCont(p) ==
  LET q == proc[p] IN
  /\ q.pc = "d_back"
  /\ Return(proc, p, q, Absent, q.dbres # "ok" /\ DeleteRethrows(q.dbres),
            IF q.dbres = "error" THEN "delete" ELSE "none", cache)
  /\ UNCHANGED <<store, cache, now, prisma, env, storageInstance, files, left>>

(***************************************************************************)
(* A request starts: an operation is called on an adapter.  The history    *)
(* fields record what the request saw when it was called, whether another  *)
(* request overlapped it (solo), and whether a write to the address of a   *)
(* delete was in flight at or after the delete's start (wov).              *)
(***************************************************************************)
Called(p, via, op, ad, h, f, v) ==
  LET busy == \E r \in Procs \ {p} : InFlight(proc[r]) IN
  [Idle EXCEPT !.op = op, !.via = via, !.ad = ad, !.h = h, !.f = f, !.v = v,
               !.solo = ~busy,
               !.prev = IF busy \/ ~last.solo THEN NoOp ELSE Strip(last),
               !.c0 = cache[getCacheKey(ad, h, f)],
               !.t0 = now,
               !.s0 = IF ReadLike(op) THEN store ELSE <<>>,
               !.wov = /\ op = "delete"
                       /\ \E r \in Procs \ {p} :
                            /\ InFlight(proc[r]) /\ WriteLike(proc[r].op)
                            /\ proc[r].h = h /\ proc[r].f = f]

Overlapped(p, op, h, f) ==
  [r \in Procs |->
     IF r # p /\ InFlight(proc[r])
       THEN [proc[r] EXCEPT
               !.solo = FALSE,
               !.wov = @ \/ (/\ proc[r].op = "delete" /\ WriteLike(op)
                             /\ proc[r].h = h /\ proc[r].f = f)]
       ELSE proc[r]]

Invoke(p, via, op, ad, h, f, v) ==
  LET q == Called(p, via, op, ad, h, f, v)
      P == Overlapped(p, op, h, f)
  IN CASE ReadLike(op) ->
            /\ ReadCall(P, NoLast, p, q)
            /\ left' = [left EXCEPT !.ops = @ - 1]
       [] WriteLike(op) -> WriteCall(P, NoLast, p, q)
       [] OTHER ->
            /\ DeleteCall(P, NoLast, p, q)
            /\ left' = [left EXCEPT !.ops = @ - 1]

\* readJson, writeJson or delete is called on the adapter of a tenant context
CallAdapter(p) ==
  /\ proc[p].pc = "idle"
  /\ \A r \in Procs : r < p => InFlight(proc[r])    \* the lowest free slot
  /\ left.ops > 0
  /\ Cardinality({r \in Procs : InFlight(proc[r])}) < scope.par
  /\ \E ad \in scope.ads, h \in scope.hs, f \in scope.fs :
       \/ Invoke(p, "adapter", "readJson", ad, h, f, Absent)
       \/ Invoke(p, "adapter", "delete", ad, h, f, Absent)
       \/ \E v \in scope.vals : Invoke(p, "adapter", "writeJson", ad, h, f, v)
  /\ UNCHANGED <<now, env, storageInstance, files>>

(***************************************************************************)
(* The environment: time passes, and a stored record is modified from      *)
(* outside the program.                                                    *)
(***************************************************************************)
\* the instants at which the clock is looked at: just before the TTL has
\* passed since the start, then every millisecond
TickSteps(t) == IF t = 0 THEN {CACHE_TTL - 1} ELSE {1}

Tick ==
  /\ left.ticks > 0
  /\ \E d \in TickSteps(now) : now' = now + d
  /\ left' = [left EXCEPT !.ticks = @ - 1]
  /\ UNCHANGED <<store, cache, prisma, env, storageInstance, files, proc, last>>

\* one hex character of the ciphertext field is changed
FlipCiphertext(tokenData) ==
  <<tokenData[1], tokenData[2], [tokenData[3] EXCEPT !.flipped = TRUE]>>

CorruptText == "{"

\* what is left of a record whose payload is modified from outside
Tampered(rec, f) ==
  IF Shape(f) = "token"
    THEN [rec EXCEPT !.tokenData = FlipCiphertext(@)]
    ELSE [rec EXCEPT !.value = CorruptText]

\* the record of an address is modified from outside the program; the
\* history notes the modification and its address
Tamper ==
  /\ left.tampers > 0
  /\ left' = [left EXCEPT !.tampers = @ - 1]
  /\ \E ad \in scope.ads, h \in scope.hs, f \in scope.fs :
       /\ RecordAt(ad, h, f).has
       /\ CASE Shape(f) = "token" ->
                 /\ mCPRemoteToken' = [mCPRemoteToken EXCEPT
                      ![TokenKey(ad, h)] = Tampered(@, f)]
                 /\ UNCHANGED <<mCPRemoteClientInfo, mCPRemoteStorage>>
            [] Shape(f) = "client" ->
                 /\ mCPRemoteClientInfo' = [mCPRemoteClientInfo EXCEPT
                      ![ClientKey(h)] = Tampered(@, f)]
                 /\ UNCHANGED <<mCPRemoteToken, mCPRemoteStorage>>
            [] OTHER ->
                 /\ mCPRemoteStorage' = [mCPRemoteStorage EXCEPT
                      ![GenericKey(ad, h, f)] = Tampered(@, f)]
                 /\ UNCHANGED <<mCPRemoteToken, mCPRemoteClientInfo>>
       /\ last' = [NoLast EXCEPT !.op = "tamper", !.ad = ad, !.h = h, !.f = f,
                                 !.solo = \A r \in Procs : ~InFlight(proc[r])]
  /\ proc' = [r \in Procs |-> [proc[r] EXCEPT !.solo = FALSE]]
  /\ UNCHANGED <<cache, now, prisma, env, storageInstance, files>>

(***************************************************************************)
(* The adapter under concurrent requests.                                  *)
(***************************************************************************)
NoFile == [has |-> FALSE, text |-> ""]

InitCommon ==
  /\ mCPRemoteToken = [k \in TokenKeys |-> NoRecord]
  /\ mCPRemoteClientInfo = [k \in ClientKeys |-> NoRecord]
  /\ mCPRemoteStorage = [k \in GenericKeys |-> NoRecord]
  /\ cache = [k \in CacheKeys |-> NoEntry]
  /\ now = 0
  /\ prisma = FALSE
  /\ storageInstance = <<>>
  /\ files = [a \in Hashes \X Filenames |-> NoFile]
  /\ proc = [p \in Procs |-> Idle]
  /\ last = NoLast

\* the requests of one behaviour are for one address
OneAddress(vals, par) ==
  {[ads |-> {ad}, hs |-> {h}, fs |-> {f}, vals |-> vals, par |-> par] :
     ad \in Tenants, h \in Hashes, f \in Filenames}

ConcurrentValues == {JNull, JObj("bearer")}

\* concurrent requests on one address
Init ==
  /\ InitCommon
  /\ databaseUrl = TRUE
  /\ prismaGlobal \in BOOLEAN
  /\ DB_MODE = TRUE
  /\ USER_ID = "u1"
  /\ CONNECTION_ID = "c1"
  /\ scope \in OneAddress(ConcurrentValues, 2)
  /\ left = [ops |-> MaxOps, ticks |-> MaxTicks, tampers |-> 0, faults |-> 0]

\* one request at a time, every value
InitSeq ==
  /\ InitCommon
  /\ databaseUrl \in BOOLEAN
  /\ prismaGlobal \in BOOLEAN
  /\ DB_MODE = TRUE
  /\ USER_ID = "u1"
  /\ CONNECTION_ID = "c1"
  /\ \E v \in JsonValues : scope \in OneAddress({v}, 1)
  /\ left = [ops |-> MaxOps, ticks |-> MaxTicks, tampers |-> MaxTamper,
             faults |-> MaxFaults]

\* the steps of a suspended readJson or writeJson
ReadWriteStep(p) ==
  \/ DbFind(p) \/ ReadCont(p) \/ ReadDec(p)
  \/ WriteEnc(p) \/ DbUpsert(p) \/ WriteCont(p)

Step(p) ==
  \/ ReadWriteStep(p)
  \/ DbDelete(p) \/ DeleteCont(p)

Next ==
  \/ \E p \in Procs : CallAdapter(p)
  \/ \E p \in Procs : Step(p)
  \/ Tick

Spec == Init /\ [][Next]_vars

NextSeq ==
  \/ Next
  \/ Tamper

SpecSeq == InitSeq /\ [][NextSeq]_vars

(***************************************************************************)
(* The adapter's text operations next to its JSON operations, one request  *)
(* at a time.  readText and writeText are readJson and writeJson with a    *)
(* check of the value read.                                                *)
(***************************************************************************)
CallText(p) ==
  /\ proc[p].pc = "idle"
  /\ \A r \in Procs : r < p => InFlight(proc[r])    \* the lowest free slot
  /\ left.ops > 0
  /\ Cardinality({r \in Procs : InFlight(proc[r])}) < scope.par
  /\ \E ad \in scope.ads, h \in scope.hs, f \in scope.fs :
       \/ Invoke(p, "adapter", "readJson", ad, h, f, Absent)
       \/ Invoke(p, "adapter", "readText", ad, h, f, Absent)
       \/ \E v \in scope.vals : Invoke(p, "adapter", "writeJson", ad, h, f, v)
       \/ \E v \in scope.vals :
            v.t = "str" /\ Invoke(p, "adapter", "writeText", ad, h, f, v)
  /\ UNCHANGED <<now, env, storageInstance, files>>

NextText ==
  \/ \E p \in Procs : CallText(p)
  \/ \E p \in Procs : ReadWriteStep(p)
  \/ Tick
  \/ Tamper

SpecText == InitSeq /\ [][NextText]_vars

(***************************************************************************)
(* Adapters of several tenant contexts and addresses on the one cache and  *)
(* the one durable store: the requests of a behaviour read and write a     *)
(* target address, and write and delete another address.                   *)
(***************************************************************************)
\* the addresses that are not client_info.json
IsolatedAddresses ==
  {a \in AllAddresses : a[3] \in {"tokens.json", "x", "x_y", "y"}}

TargetValue == JStr("s")
OtherValue == JObj("bearer")

InitIso ==
  /\ InitCommon
  /\ databaseUrl = TRUE
  /\ prismaGlobal \in BOOLEAN
  /\ DB_MODE = TRUE
  /\ USER_ID = "u1"
  /\ CONNECTION_ID = "c1"
  /\ \E a \in IsolatedAddresses :
       \E b \in IsolatedAddresses \ {a} :
         scope = [target |-> a, other |-> b, par |-> 1]
  /\ left = [ops |-> MaxOps, ticks |-> MaxTicks, tampers |-> 0, faults |-> 0]

CallIso(p) ==
  LET a == scope.target
      b == scope.other
  IN
  /\ proc[p].pc = "idle"
  /\ \A r \in Procs : r < p => InFlight(proc[r])    \* the lowest free slot
  /\ left.ops > 0
  /\ Cardinality({r \in Procs : InFlight(proc[r])}) < scope.par
  /\ \/ Invoke(p, "adapter", "readJson", a[1], a[2], a[3], Absent)
     \/ Invoke(p, "adapter", "writeJson", a[1], a[2], a[3], TargetValue)
     \/ Invoke(p, "adapter", "writeJson", b[1], b[2], b[3], OtherValue)
     \/ Invoke(p, "adapter", "delete", b[1], b[2], b[3], Absent)
  /\ UNCHANGED <<now, env, storageInstance, files>>

NextIso ==
  \/ \E p \in Procs : CallIso(p)
  \/ \E p \in Procs : Step(p)
  \/ Tick

SpecIso == InitIso /\ [][NextIso]_vars

(***************************************************************************)
(* The exported entry points.  getStorage resolves the backend; the         *)
(* fallback backend (./mcp-auth-config) keeps one file per <<hash,          *)
(* filename>> and touches neither the durable store nor the cache.  A       *)
(* fallback operation completes in the step in which it is called.          *)
(***************************************************************************)
\* new DatabaseStorage(userId, connectionId): the instances are told apart
\* by their serial number, the first one having serial 1
DatabaseStorage(userId, connectionId, serial) ==
  [userId |-> userId, connectionId |-> connectionId, serial |-> serial]

\* a resolution that constructs an adapter at every call
getStorageAnew ==
  IF ~DB_MODE \/ USER_ID = "" \/ CONNECTION_ID = ""
    THEN <<>>
    ELSE DatabaseStorage(USER_ID, CONNECTION_ID,
           IF storageInstance = <<>> THEN 1 ELSE storageInstance.serial + 1)

\* getStorage: null (<<>>) unless the mode flag, the tenant id and the
\* connection id are all set; else the memoised adapter, constructed when
\* there is none yet
getStorage ==
  IF ~DB_MODE \/ USER_ID = "" \/ CONNECTION_ID = ""
    THEN <<>>
    ELSE IF storageInstance = <<>>
      THEN DatabaseStorage(USER_ID, CONNECTION_ID, 1)
      ELSE storageInstance

\* what the fallback's operation leaves in the file
FileAfter(op, file, v) ==
  CASE op = "writeJson" -> [has |-> TRUE, text |-> Stringify(v)]
    [] op = "writeText" -> [has |-> TRUE, text |-> v.v]
    [] op = "delete" -> NoFile
    [] OTHER -> file

\* what the fallback's operation returns
FileResult(op, file, valid) ==
  CASE op = "readJson" ->
         IF file.has /\ Parse(file.text) # ParseError /\ valid
           THEN Parse(file.text) ELSE Absent
    [] op = "readText" -> IF file.has THEN JStr(file.text) ELSE Absent
    [] OTHER -> Absent

\* the fallback's readTextFile throws when the file cannot be read
FileThrows(op, file) == op = "readText" /\ ~file.has

\* an operation of the fallback backend, from call to return
Fallback(p, op, h, f, v) ==
  LET file == files[<<h, f>>]
      busy == \E r \in Procs \ {p} : InFlight(proc[r])
  IN \E valid \in BOOLEAN :
       /\ files' = [files EXCEPT ![<<h, f>>] = FileAfter(op, file, v)]
       /\ proc' = proc
       /\ last' = [NoLast EXCEPT
                     !.op = op, !.via = "export", !.h = h, !.f = f, !.v = v,
                     !.res = FileResult(op, file, valid),
                     !.err = FileThrows(op, file),
                     !.solo = ~busy, !.t0 = now, !.backend = "file",
                     !.prev = IF busy \/ ~last.solo THEN NoOp ELSE Strip(last)]
       /\ left' = [left EXCEPT !.ops = @ - 1]
       /\ UNCHANGED <<store, cache, prisma>>

\* an entry point that asks getStorage first
Resolved(p, op, h, f, v) ==
  LET storage == getStorage IN
  IF storage # <<>>
    THEN /\ storageInstance' = storage
         /\ Invoke(p, "export", op, <<storage.userId, storage.connectionId>>,
                   h, f, v)
         /\ UNCHANGED files
    ELSE /\ UNCHANGED storageInstance
         /\ Fallback(p, op, h, f, v)

readJsonFile(p, serverUrlHash, filename) ==
  Resolved(p, "readJson", serverUrlHash, filename, Absent)

writeJsonFile(p, serverUrlHash, filename, data) ==
  Resolved(p, "writeJson", serverUrlHash, filename, data)

readTextFile(p, serverUrlHash, filename) ==
  Resolved(p, "readText", serverUrlHash, filename, Absent)

writeTextFile(p, serverUrlHash, filename, text) ==
  Resolved(p, "writeText", serverUrlHash, filename, text)

\* deleteConfigFile is the fallback's function, exported as it is
deleteConfigFile(p, serverUrlHash, filename) ==
  /\ UNCHANGED storageInstance
  /\ Fallback(p, "delete", serverUrlHash, filename, Absent)

CallExport(p) ==
  /\ proc[p].pc = "idle"
  /\ \A r \in Procs : r < p => InFlight(proc[r])    \* the lowest free slot
  /\ left.ops > 0
  /\ Cardinality({r \in Procs : InFlight(proc[r])}) < scope.par
  /\ \E h \in scope.hs, f \in scope.fs :
       \/ readJsonFile(p, h, f)
       \/ readTextFile(p, h, f)
       \/ \E v \in scope.vals : writeJsonFile(p, h, f, v)
       \/ \E v \in scope.vals : v.t = "str" /\ writeTextFile(p, h, f, v)
       \/ deleteConfigFile(p, h, f)
  /\ UNCHANGED <<now, env>>

\* any configuration; up to two requests in flight
InitExport ==
  /\ InitCommon
  /\ databaseUrl \in BOOLEAN
  /\ prismaGlobal \in BOOLEAN
  /\ DB_MODE \in BOOLEAN
  /\ USER_ID \in {"", "u1"}
  /\ CONNECTION_ID \in {"", "c1"}
  /\ \E v \in JsonValues, h \in Hashes, f \in Filenames :
       scope = [ads |-> {}, hs |-> {h}, fs |-> {f}, vals |-> {v}, par |-> 2]
  /\ left = [ops |-> MaxOps, ticks |-> MaxTicks, tampers |-> 0, faults |-> 0]

\* no exported entry point calls the adapter's delete
NextExport ==
  \/ \E p \in Procs : CallExport(p)
  \/ \E p \in Procs : ReadWriteStep(p)
  \/ Tick

SpecExport == InitExport /\ [][NextExport]_vars

(***************************************************************************)
(* The cipher on its own: a text is encrypted for one tenant, the           *)
(* serialised result may lose its last field or have its ciphertext         *)
(* modified, and is decrypted for a tenant.  `last` is the cipher call      *)
(* completed last.                                                         *)
(***************************************************************************)
Plaintexts == {Stringify(d) : d \in JsonValues} \cup {"", CorruptText}

NoCipherCall == [op |-> "none", text |-> "", userId |-> "", enc |-> <<>>,
                 intact |-> TRUE, by |-> "", res |-> [ok |-> FALSE]]

InitCipher ==
  /\ InitCommon
  /\ databaseUrl = TRUE
  /\ prismaGlobal = TRUE
  /\ DB_MODE = TRUE
  /\ USER_ID = "u1"
  /\ CONNECTION_ID = "c1"
  /\ scope \in [text : Plaintexts, A : Users, B : Users]
  /\ left = [ops |-> MaxOps, ticks |-> 0, tampers |-> MaxTamper, faults |-> 0]

\* encrypt(scope.text, scope.A)
CipherEncrypt ==
  /\ last.op = "none"
  /\ \E iv \in IVs :
       last' = [NoCipherCall EXCEPT
                  !.op = "encrypt", !.text = scope.text, !.userId = scope.A,
                  !.enc = encrypt(scope.text, scope.A, iv)]
  /\ left' = [left EXCEPT !.ops = @ - 1]
  /\ UNCHANGED <<store, cache, now, prisma, env, storageInstance, files, proc>>

\* the serialised result is modified from outside: the ciphertext field is
\* changed, or the last field is lost
CipherTamper ==
  /\ last.op = "encrypt" /\ left.tampers > 0
  /\ \/ last' = [last EXCEPT !.enc = FlipCiphertext(@), !.intact = FALSE]
     \/ last' = [last EXCEPT !.enc = SubSeq(@, 1, 2), !.intact = FALSE]
  /\ left' = [left EXCEPT !.tampers = @ - 1]
  /\ UNCHANGED <<store, cache, now, prisma, env, storageInstance, files, proc>>

\* decrypt(enc, scope.B)
CipherDecrypt ==
  /\ last.op = "encrypt"
  /\ last' = [last EXCEPT !.op = "decrypt", !.by = scope.B,
                          !.res = decrypt(last.enc, scope.B)]
  /\ left' = [left EXCEPT !.ops = @ - 1]
  /\ UNCHANGED <<store, cache, now, prisma, env, storageInstance, files, proc>>

NextCipher ==
  \/ CipherEncrypt
  \/ CipherTamper
  \/ CipherDecrypt

SpecCipher == InitCipher /\ [][NextCipher]_vars

(***************************************************************************)
(* Properties.  `last` is the operation that has just completed; last.prev *)
(* is the operation completed before it was called, when no other request  *)
(* and no outside modification came in between.                            *)
(***************************************************************************)
SameAddress(a, b) == a.ad = b.ad /\ a.h = b.h /\ a.f = b.f

\* the read could not reach the durable store, or the store failed
FetchFailed(l) == l.fail \in {"fetch", "config", "ref"}

\* readJson has just returned, called right after a successful writeJson
\* to the same address on the same adapter
ReadAfterWrite ==
  /\ last.op = "readJson" /\ last.via = "adapter" /\ last.solo
  /\ last.prev.op = "writeJson" /\ ~last.prev.err
  /\ SameAddress(last, last.prev)

\* C1: a successful writeJson(addr, V) followed by readJson(addr) on the
\* same adapter, with nothing in between, returns V, for every tenant
\* context, every record shape and every JSON value (null, false, 0 and ""
\* included), whenever the read's own fetch does not fail.
C1_RoundTrip ==
  (ReadAfterWrite /\ ~FetchFailed(last))
    => (last.res = last.prev.v /\ ~last.err)

\* C1 witness: a token written, the cache entry expired, and the value read
\* back through the store, the cipher and the JSON codec
C1_Witness ==
  /\ ReadAfterWrite
  /\ last.f = "tokens.json" /\ last.dbres = "ok"
  /\ last.res = last.prev.v

\* a delete has just returned without error, the store having deleted the
\* record or reported that there is none, and no write to the address was
\* in flight at or after the start of the delete
DeleteReturned ==
  /\ last.op = "delete" /\ last.via = "adapter"
  /\ ~last.err /\ last.dbres \in {"ok", "notfound"}
  /\ ~last.wov

\* the cache holds an entry for the key that readJson would return now
Served(key) == CacheFresh(cache[key], now) /\ cache[key].data # JNull

\* C3: once delete(addr) has returned without error, and no writeJson to
\* addr was in flight at or after its start, neither a stored record nor a
\* cache entry (that a later readJson would return) exists for addr, also
\* when reads of addr interleave with the delete.
C3_DeleteRemovesRecordAndEntry ==
  DeleteReturned =>
    /\ ~RecordAt(last.ad, last.h, last.f).has
    /\ ~Served(getCacheKey(last.ad, last.h, last.f))

\* C4: delete is idempotent: a delete completes successfully whether or not
\* there is a record (also as the second of two deletes in a row, when the
\* store reports that there is none), and a readJson called right after a
\* delete returns absent.  The durable store is taken not to fail.
C4_IdempotentDelete ==
  /\ (last.op = "delete" /\ last.dbres # "error") => ~last.err
  /\ ( /\ last.op = "readJson" /\ last.via = "adapter" /\ last.solo
       /\ last.prev.op = "delete" /\ last.prev.dbres # "error"
       /\ SameAddress(last, last.prev) )
     => (last.res = Absent /\ ~last.err)

\* C4 witness: the second of two deletes in a row has completed, the first
\* having deleted a record, the second finding none
C4_Witness ==
  /\ last.op = "delete" /\ last.solo /\ ~last.err /\ last.dbres = "notfound"
  /\ last.prev.op = "delete" /\ last.prev.dbres = "ok" /\ ~last.prev.err
  /\ SameAddress(last, last.prev)

\* C5: delete is fail-hard except for not-found: it completes successfully
\* when the store reports that the record does not exist, and it fails,
\* the error reaching the caller, when the store's delete fails otherwise.
C5_DeleteFailHard ==
  last.op = "delete" =>
    /\ last.dbres = "notfound" => ~last.err
    /\ last.dbres = "error" => last.err

\* a readJson, with no other request about, has just ended in a failure of
\* the fetch, the decryption or the parse
ReadFailed ==
  /\ last.op = "readJson" /\ last.via = "adapter" /\ last.solo
  /\ last.fail \in {"fetch", "config", "ref", "decrypt", "parse"}

\* C6 as stated: a failed read returns absent without throwing and changes
\* neither the durable store nor the cache entry of the address.
C6_FailSoftReadChangesNothing ==
  ReadFailed =>
    /\ ~last.err /\ last.res = Absent
    /\ last.sameStore
    /\ cache[getCacheKey(last.ad, last.h, last.f)] = last.c0

\* C6 as amended: a failed read returns absent without throwing, leaves the
\* durable store as it was, and leaves the cache entry as it was unless
\* the entry had expired: an expired entry is evicted by the lookup.
C6_FailSoftRead ==
  ReadFailed =>
    /\ ~last.err /\ last.res = Absent
    /\ last.sameStore
    /\ cache[getCacheKey(last.ad, last.h, last.f)] =
         IF CacheFresh(last.c0, last.t0) THEN last.c0 ELSE NoEntry

\* C6 witness: a tampered token record was read: the decryption failed and
\* readJson returned absent
C6_Witness ==
  /\ ReadFailed /\ last.fail = "decrypt"
  /\ last.res = Absent /\ ~last.err

\* C7: a writeJson whose encryption or upsert fails (or that fails in any
\* other way) throws to its caller and leaves the cache entry of the
\* address exactly as it was before the call.
C7_FailHardWrite ==
  (last.op = "writeJson" /\ last.via = "adapter" /\ last.solo
   /\ last.fail # "none")
    => /\ last.err
       /\ cache[getCacheKey(last.ad, last.h, last.f)] = last.c0

\* C7 witness: the upsert of a write failed while the cache held an entry
\* of an earlier write
C7_Witness ==
  /\ last.op = "writeJson" /\ last.solo /\ last.fail = "upsert"
  /\ last.c0.has /\ last.err

\* a readJson called right after a readJson of the same address that
\* returned the value the cache now holds for it (cached at c0.timestamp)
ReRead ==
  /\ last.op = "readJson" /\ last.via = "adapter" /\ last.solo
  /\ last.prev.op = "readJson" /\ SameAddress(last, last.prev)
  /\ last.c0.has /\ last.c0.data = last.prev.res

\* C8: a value obtained by readJson at t0 is returned by a re-read before
\* t0 + TTL from the cache, without a round trip to the store; a re-read
\* at or after t0 + TTL fetches from the store; and no read returns a cache
\* entry whose age is TTL or more.
C8_CacheTtlBoundary ==
  /\ (ReRead /\ last.t0 - last.c0.timestamp < CACHE_TTL)
       => (last.dbres = "none" /\ last.res = last.c0.data)
  /\ (ReRead /\ last.t0 - last.c0.timestamp >= CACHE_TTL /\ ~FetchFailed(last))
       => last.dbres # "none"
  /\ (last.op = "readJson" /\ last.dbres = "none" /\ last.fail = "none")
       => (last.c0.has /\ last.t0 - last.c0.timestamp < CACHE_TTL)

\* the payload is what the cipher produces for some JSON text under the key
\* of the tenant, possibly with its ciphertext field modified afterwards
IsCiphertextFor(tokenData, userId) ==
  \E iv \in IVs, d \in JsonValues :
    LET c == encrypt(Stringify(d), userId, iv)
    IN tokenData = c \/ tokenData = FlipCiphertext(c)

\* C9: every token record in the durable store holds its payload as
\* ciphertext of the cipher under the record's own tenant identifier; no
\* payload is persisted in plaintext.
C9_TokensEncrypted ==
  \A k \in TokenKeys :
    mCPRemoteToken[k].has =>
      /\ Len(mCPRemoteToken[k].tokenData) = 3
      /\ IsCiphertextFor(mCPRemoteToken[k].tokenData, k[1])

\* C9 witness: writeJson has persisted a token record
C9_Witness ==
  /\ last.op = "writeJson" /\ last.f = "tokens.json" /\ ~last.err
  /\ mCPRemoteToken[TokenKey(last.ad, last.h)].has

\* the backend is durable: the flag selects it, and both ids are set
Durable == DB_MODE /\ USER_ID # "" /\ CONNECTION_ID # ""

\* C2: every exported read/write/delete entry point operates on the storage
\* adapter when the backend is durable and on the fallback exactly when it
\* is not; so in durable mode, once the exported delete has returned, the
\* address has no stored record and no cache entry that a read would
\* return, and the next readJsonFile returns absent.
C2_EntryPointsCheckSelector ==
  (last.op # "none" /\ last.via = "export") =>
    /\ last.backend = IF Durable THEN "db" ELSE "file"
    /\ (Durable /\ last.op = "delete" /\ ~last.err) =>
         /\ ~RecordAt(<<USER_ID, CONNECTION_ID>>, last.h, last.f).has
         /\ ~Served(getCacheKey(<<USER_ID, CONNECTION_ID>>, last.h, last.f))
    /\ ( /\ Durable /\ last.op = "readJson" /\ last.solo
         /\ last.prev.op = "delete" /\ ~last.prev.err
         /\ last.prev.h = last.h /\ last.prev.f = last.f )
       => last.res = Absent

\* a decrypt of an unmodified result of encrypt has just completed
DecryptedIntact == last.op = "decrypt" /\ last.intact

\* C10: for every plaintext P and tenant identifiers A # B,
\* decrypt(encrypt(P, A), B) fails with an integrity error and does not
\* return P, while decrypt(encrypt(P, A), A) returns P.
C10_CipherTenantIsolation ==
  DecryptedIntact =>
    IF last.by = last.userId
      THEN last.res.ok /\ last.res.text = last.text
      ELSE ~last.res.ok /\ last.res.err = "integrity"

\* C10 witness: a ciphertext of one tenant was decrypted under the
\* identifier of another, and the decryption failed
C10_Witness ==
  /\ DecryptedIntact /\ last.by # last.userId
  /\ ~last.res.ok

\* a read called right after the record of its address was modified from
\* outside, nothing else having happened in between
ReadAfterTamper ==
  /\ last.op \in {"readJson", "readText"} /\ last.via = "adapter" /\ last.solo
  /\ last.prev.op = "tamper" /\ SameAddress(last, last.prev)
  /\ last.f = "tokens.json"

\* the outcome of a read that found the record unreadable: readJson returns
\* absent and does not throw, readText throws its read error
DegradedRead ==
  /\ last.res = Absent
  /\ last.err <=> (last.op = "readText")

\* C11 as stated: after the ciphertext of a persisted token record has been
\* tampered with, a subsequent readJson of the address returns absent
\* without throwing, and readText of the address throws the read error.
C11_CorruptCiphertextDegrades ==
  ReadAfterTamper => DegradedRead

\* C11 as amended: the same, for a read that finds no unexpired cache entry
\* with a value for the address (such an entry is what the read returns,
\* the record not being looked at).
C11_CorruptCiphertextDegradesPastCache ==
  (ReadAfterTamper /\ ~(CacheFresh(last.c0, last.t0) /\ last.c0.data # JNull))
    => DegradedRead

\* C11 witness: readText of a tampered token record has thrown, the
\* decryption having failed
C11_Witness ==
  /\ ReadAfterTamper /\ last.op = "readText"
  /\ last.fail = "decrypt" /\ last.err

\* the tenant context of the adapter the backend selector holds
InstanceContext == <<storageInstance.userId, storageInstance.connectionId>>

\* C12: when the durable backend is selected, at most one storage adapter
\* is ever constructed (the one of serial 1, for the configured tenant
\* context), it is never replaced, and every entry point that resolved the
\* backend works on that instance; when the backend is not durable, none
\* is constructed.
C12_SingletonAdapter ==
  /\ ~Durable => storageInstance = <<>>
  /\ storageInstance # <<>> =>
       storageInstance = DatabaseStorage(USER_ID, CONNECTION_ID, 1)
  /\ \A p \in Procs :
       (InFlight(proc[p]) /\ proc[p].via = "export") =>
         (storageInstance # <<>> /\ proc[p].ad = InstanceContext)
  /\ (last.op # "none" /\ last.via = "export" /\ last.backend = "db") =>
       (storageInstance # <<>> /\ last.ad = InstanceContext)

\* C12 witness: a second entry point has resolved the backend, after a
\* first one that completed on the adapter, and works on the same instance
C12_Witness ==
  /\ Durable /\ storageInstance # <<>>
  /\ \E p \in Procs :
       /\ InFlight(proc[p]) /\ proc[p].via = "export"
       /\ proc[p].prev.op # "none" /\ proc[p].prev.via = "export"
       /\ proc[p].prev.ad = proc[p].ad

\* C13: readText returns the value readJson found whenever it is a string
\* (the empty string included) and throws exactly when it is absent or not
\* a string; so a successful writeText(addr, s) followed by readText(addr)
\* returns s, whenever the read's own fetch does not fail.
C13_ReadTextReturnsStrings ==
  (last.op = "readText" /\ last.via = "adapter") =>
    /\ last.err <=> (last.raw = Absent \/ last.raw.t # "str")
    /\ ~last.err => last.res = last.raw
    /\ ( /\ last.solo /\ last.prev.op = "writeText" /\ ~last.prev.err
         /\ SameAddress(last, last.prev) /\ ~FetchFailed(last) )
       => (last.res = last.prev.v /\ ~last.err)

\* C14: in durable mode readJsonFile hands every value the adapter read
\* (false, 0, "" and null included) to the validator and returns the
\* validator's result; it returns absent, and never throws, only when the
\* adapter read no value or the validator threw.
C14_ValidatorOnEveryValue ==
  (last.op = "readJson" /\ last.via = "export" /\ last.backend = "db") =>
    /\ ~last.err
    /\ last.raw # Absent => last.validator # "skipped"
    /\ last.validator = "passed" => last.res = last.raw
    /\ last.res = Absent => (last.raw = Absent \/ last.validator = "threw")

\* C15: when the durable backend is selected and DATABASE_URL is not set,
\* the construction of the backend fails with a configuration error: no
\* adapter is constructed, and no entry point that resolved the backend
\* completes with a normal result.
C15_ConfigurationFailFast ==
  (Durable /\ ~databaseUrl) =>
    /\ storageInstance = <<>>
    /\ (last.op # "none" /\ last.via = "export" /\ last.backend = "db")
         => last.err

\* C16: a successful writeJson(addr, V) leaves the cache entry of addr at
\* (V, time of the write), and a readJson(addr) called within TTL of that
\* write, nothing else having happened to addr, returns V from the cache
\* without a round trip to the store, for every JSON value V.
C16_WriteRefreshesCache ==
  /\ (last.op = "writeJson" /\ last.via = "adapter" /\ last.solo /\ ~last.err)
       => LET entry == cache[getCacheKey(last.ad, last.h, last.f)]
          IN /\ entry.has /\ entry.data = last.v
             /\ last.t0 <= entry.timestamp /\ entry.timestamp <= now
  /\ (ReadAfterWrite /\ last.t0 - last.c0.timestamp < CACHE_TTL)
       => (last.dbres = "none" /\ last.res = last.prev.v /\ ~last.err)

\* the addresses the requests of this behaviour are for
ScopeAddresses == scope.ads \X scope.hs \X scope.fs

\* an operation called right after a successful writeJson to its address
\* has had its query answered by the store
AnsweredAfterWrite(op) ==
  /\ last.op = op /\ last.via = "adapter" /\ last.solo
  /\ last.prev.op = "writeJson" /\ ~last.prev.err
  /\ SameAddress(last, last.prev)
  /\ last.dbres \in {"ok", "notfound"}

\* C17: routing is the same three-way mapping in readJson, writeJson and
\* delete.  Every stored record is in the table and under the key of an
\* address a request was for: tokens.json in the token table under
\* (userId, connectionId, serverUrlHash), client_info.json in the
\* client-info table under serverUrlHash, any other filename in the
\* generic table under (userId, connectionId, serverUrlHash_filename); a
\* readJson and a delete after a writeJson find the record the write made,
\* and the delete leaves no record.
C17_ShapeRouting ==
  /\ \A k \in TokenKeys :
       mCPRemoteToken[k].has =>
         \E a \in ScopeAddresses :
           a[3] = "tokens.json" /\ k = <<a[1][1], a[1][2], a[2]>>
  /\ \A k \in ClientKeys :
       mCPRemoteClientInfo[k].has =>
         \E a \in ScopeAddresses : a[3] = "client_info.json" /\ k = a[2]
  /\ \A k \in GenericKeys :
       mCPRemoteStorage[k].has =>
         \E a \in ScopeAddresses :
           /\ a[3] \notin {"tokens.json", "client_info.json"}
           /\ k = <<a[1][1], a[1][2], a[2] \o "_" \o a[3]>>
  /\ AnsweredAfterWrite("readJson") => last.dbres = "ok"
  /\ AnsweredAfterWrite("delete") =>
       /\ last.dbres = "ok"
       /\ \A k \in TokenKeys : ~mCPRemoteToken[k].has
       /\ \A k \in ClientKeys : ~mCPRemoteClientInfo[k].has
       /\ \A k \in GenericKeys : ~mCPRemoteStorage[k].has

\* C17 witness: a delete called after a writeJson has removed the generic
\* record the write made
C17_Witness ==
  /\ AnsweredAfterWrite("delete") /\ last.dbres = "ok"
  /\ Shape(last.f) = "generic"

\* the value readJson would decode from the stored record of an address
StoredValue(ad, h, f) ==
  LET rec == RecordAt(ad, h, f) IN
  IF Shape(f) = "token"
    THEN Parse(decrypt(rec.tokenData, ad[1]).text)
    ELSE Parse(rec.value)

\* no request is in flight
Quiescent == \A p \in Procs : ~InFlight(proc[p])

\* C18: once no operation is in flight, after any interleaving of readJson,
\* writeJson and delete on one address, an unexpired cache entry that a
\* readJson would return exists only if a stored record exists, and it
\* holds the value of that record; so a later readJson returns no older
\* and no deleted value.
C18_CacheCoherentAtQuiescence ==
  Quiescent =>
    \A a \in ScopeAddresses :
      Served(getCacheKey(a[1], a[2], a[3])) =>
        /\ RecordAt(a[1], a[2], a[3]).has
        /\ cache[getCacheKey(a[1], a[2], a[3])].data
             = StoredValue(a[1], a[2], a[3])

\* the operation completed last was for this address
LastAt(a) == last.ad = a[1] /\ last.h = a[2] /\ last.f = a[3]

\* C19: with adapters of any tenant contexts on the one cache and the one
\* store, and names without ':', a readJson of an address other than
\* client_info.json returns only what was written under the same tenant
\* context, serverUrlHash and filename: the value written to the target or
\* absent, never the value written to another address; and a write or
\* delete of another address leaves the record written to the target as
\* it is.
C19_AddressIsolation ==
  LET a == scope.target IN
  /\ (last.op = "readJson" /\ LastAt(a)) => last.res \in {Absent, TargetValue}
  /\ RecordAt(a[1], a[2], a[3]).has =>
       StoredValue(a[1], a[2], a[3]) = TargetValue
  /\ ( /\ last.op \in {"writeJson", "delete"} /\ LastAt(scope.other)
       /\ last.solo /\ last.prev.op = "writeJson" /\ ~last.prev.err
       /\ last.prev.ad = a[1] /\ last.prev.h = a[2] /\ last.prev.f = a[3] )
     => RecordAt(a[1], a[2], a[3]).has

=============================================================================
